---- MODULE Spec2Model ----
(***************************************************************************)
(* A model of xmlschema/etree.py: the ElementTree helpers                  *)
(*   etree_tostring, etree_iterpath, etree_getpath,                        *)
(*   etree_elements_assert_equal and prune_etree.                          *)
(*                                                                         *)
(* Python strings are sequences of one-character strings, so that strip,   *)
(* split, join, float parsing and sorting are computed, not assumed.       *)
(* An optional string (text, tail) is <<>> for None and <<s>> for the      *)
(* string s.  Element objects live in a heap indexed by object identity;   *)
(* an element's children are a sequence of identities.                     *)
(***************************************************************************)
EXTENDS Integers, Sequences, FiniteSets, TLC

VARIABLES
    heap,   \* the Element objects: identity -> [tag, attrib, text, tail, kids]
    call,   \* the call being made: its function name and arguments
    pc,     \* "call" before the function runs, "done" after it returned or raised
    ret     \* [exc |-> "" or the exception raised, val |-> the value returned]

vars == <<heap, call, pc, ret>>

----------------------------------------------------------------------------
(* Strings                                                                 *)

None == << >>
Some(s) == << s >>
IsNone(o) == o = << >>
Val(o) == o[1]

IsSpace(c) == c \in {" ", "\t", "\n"}

\* The code points of the characters the model uses (Python compares strings
\* by code point).
Ord(c) ==
    CASE c = "\t" -> 9   [] c = "\n" -> 10  [] c = " " -> 32
      [] c = "."  -> 46  [] c = "/"  -> 47
      [] c = "0"  -> 48  [] c = "1"  -> 49  [] c = "2" -> 50 [] c = "3" -> 51
      [] c = "4"  -> 52  [] c = "5"  -> 53  [] c = "6" -> 54 [] c = "7" -> 55
      [] c = "8"  -> 56  [] c = "9"  -> 57
      [] c = "<"  -> 60  [] c = ">"  -> 62  [] c = "["  -> 91 [] c = "]" -> 93
      [] c = "a"  -> 97  [] c = "b"  -> 98  [] c = "f"  -> 102
      [] c = "k"  -> 107 [] c = "o"  -> 111 [] c = "r"  -> 114
      [] c = "u"  -> 117 [] c = "x"  -> 120 [] c = "y"  -> 121
      [] c = "{"  -> 123 [] c = "}"  -> 125

RECURSIVE StrLess(_, _)
StrLess(s, t) ==
    IF t = << >> THEN FALSE
    ELSE IF s = << >> THEN TRUE
    ELSE IF Ord(Head(s)) # Ord(Head(t)) THEN Ord(Head(s)) < Ord(Head(t))
    ELSE StrLess(Tail(s), Tail(t))

RECURSIVE LStrip(_)
LStrip(s) == IF s # << >> /\ IsSpace(Head(s)) THEN LStrip(Tail(s)) ELSE s

RECURSIVE RStrip(_)
RStrip(s) ==
    IF s # << >> /\ IsSpace(s[Len(s)]) THEN RStrip(SubSeq(s, 1, Len(s) - 1)) ELSE s

\* str.strip()
Strip(s) == RStrip(LStrip(s))

StartsWith(s, p) == Len(p) <= Len(s) /\ SubSeq(s, 1, Len(p)) = p

\* s[k:] for an integer k of either sign (Python slicing)
SliceFrom(s, k) ==
    IF k >= 0 THEN SubSeq(s, k + 1, Len(s))
    ELSE IF -k >= Len(s) THEN s
    ELSE SubSeq(s, Len(s) + k + 1, Len(s))

\* ' ' * k
RECURSIVE Spaces(_)
Spaces(k) == IF k <= 0 THEN << >> ELSE <<" ">> \o Spaces(k - 1)

\* '%d' % n for n >= 0
DigitChar(d) == <<"0", "1", "2", "3", "4", "5", "6", "7", "8", "9">>[d + 1]
RECURSIVE FormatInt(_)
FormatInt(n) ==
    IF n < 10 THEN <<DigitChar(n)>> ELSE FormatInt(n \div 10) \o <<DigitChar(n % 10)>>

\* _REGEX_SPACES.sub(repl, string): every maximal run of whitespace of
\* `string` replaced by `repl`.
RECURSIVE RegexSpacesSub(_, _)
RegexSpacesSub(repl, string) ==
    IF string = << >> THEN << >>
    ELSE IF IsSpace(Head(string)) THEN repl \o RegexSpacesSub(repl, LStrip(string))
    ELSE <<Head(string)>> \o RegexSpacesSub(repl, Tail(string))

\* float(s): [ok |-> FALSE] for a ValueError, else the value num / 10^scale.
\* The literals of the model's alphabet that float() accepts are digits,
\* digits.digits, digits. and .digits, around optional whitespace; every other
\* string over that alphabet is a ValueError.
IsDigit(c) == c \in {"0", "1", "2", "3", "4", "5", "6", "7", "8", "9"}
DigitVal(c) == Ord(c) - 48
RECURSIVE DigitsValue(_, _)
DigitsValue(s, acc) ==
    IF s = << >> THEN acc ELSE DigitsValue(Tail(s), 10 * acc + DigitVal(Head(s)))
RECURSIVE Pow10(_)
Pow10(k) == IF k = 0 THEN 1 ELSE 10 * Pow10(k - 1)
Float(s) ==
    LET t == Strip(s)
        dots == {i \in 1..Len(t) : t[i] = "."}
        digs == {i \in 1..Len(t) : IsDigit(t[i])}
    IN  IF digs = {} \/ Cardinality(dots) > 1 \/ (dots \cup digs) # 1..Len(t)
        THEN [ok |-> FALSE, num |-> 0, scale |-> 0]
        ELSE LET d == IF dots = {} THEN Len(t) + 1 ELSE CHOOSE i \in dots : TRUE
                 ip == SubSeq(t, 1, d - 1)
                 fp == SubSeq(t, d + 1, Len(t))
             IN  [ok |-> TRUE, num |-> DigitsValue(ip \o fp, 0), scale |-> Len(fp)]
FloatEq(x, y) == x.num * Pow10(y.scale) = y.num * Pow10(x.scale)

----------------------------------------------------------------------------
(* Elements                                                                *)

\* The tag of a comment: the function xml.etree.ElementTree.Comment, not a string.
Comment == << "<function Comment>" >>
Callable(tag) == tag = Comment

Node(tag, attrib, text, tail, kids) ==
    [tag |-> tag, attrib |-> attrib, text |-> text, tail |-> tail, kids |-> kids]

\* len([c for c in e if not callable(c.tag)])
ElementChildren(h, e) == SelectSeq(h[e].kids, LAMBDA c : ~Callable(h[c].tag))

\* elem in e, e is elem: Element defines no __eq__, so both are identity.
Contains(h, e, elem) == \E i \in 1..Len(h[e].kids) : h[e].kids[i] = elem

----------------------------------------------------------------------------
(* etree_elements_assert_equal                                             *)

\* namespaces.get_namespace: the namespace URI of a '{uri}local' name, else ''.
get_namespace(tag) ==
    IF Callable(tag) \/ tag = << >> \/ Head(tag) # "{" THEN << >>
    ELSE LET close == {i \in 1..Len(tag) : tag[i] = "}"}
         IN  IF close = {} THEN << >>
             ELSE SubSeq(tag, 2, (CHOOSE i \in close : \A j \in close : i <= j) - 1)

\* qnames.get_qname: a bare local name qualified with the namespace `uri`.
get_qname(uri, tag) ==
    IF Callable(tag) \/ uri = << >> \/ tag = << >> \/ Head(tag) \in {"{", ".", "/", "["}
    THEN tag
    ELSE <<"{">> \o uri \o <<"}">> \o tag

\* key=lambda x: '' if callable(x.tag) else x.tag
SortKey(h, x) == IF Callable(h[x].tag) THEN << >> ELSE h[x].tag

\* sorted(children, key=...): Python's sort is stable.
RECURSIVE InsertSorted(_, _, _)
InsertSorted(h, x, s) ==
    IF s = << >> THEN <<x>>
    ELSE IF StrLess(SortKey(h, x), SortKey(h, Head(s))) THEN <<x>> \o s
    ELSE <<Head(s)>> \o InsertSorted(h, x, Tail(s))
RECURSIVE SortedByTag(_, _)
SortedByTag(h, s) ==
    IF s = << >> THEN << >>
    ELSE InsertSorted(h, s[Len(s)], SortedByTag(h, SubSeq(s, 1, Len(s) - 1)))

\* lines 276-283
Children(h, elem, unordered) ==
    IF unordered THEN SortedByTag(h, h[elem].kids) ELSE h[elem].kids

\* lines 295-300: the exception raised and the namespace carried on
TagCheck(h, elem, e1, e2, strict, namespace) ==
    IF strict \/ e1 = elem
    THEN [exc |-> IF h[e1].tag = h[e2].tag THEN "" ELSE "AssertionError",
          namespace |-> namespace]
    ELSE LET ns == IF get_namespace(h[e1].tag) # << >>
                   THEN get_namespace(h[e1].tag) ELSE namespace
         IN  [exc |-> IF get_qname(ns, h[e1].tag) = get_qname(ns, h[e2].tag)
                      THEN "" ELSE "AssertionError",
              namespace |-> ns]

\* lines 303-318.  In strict mode the message of line 305 is written with {!r}
\* fields and filled in with %, so building it raises a TypeError ("not all
\* arguments converted during string formatting") before any AssertionError.
AttribCheck(a1, a2, strict) ==
    IF a1 = a2 THEN ""
    ELSE IF strict THEN "TypeError"
    ELSE IF DOMAIN a1 # DOMAIN a2 THEN "AssertionError"
    ELSE IF \A k \in DOMAIN a1 :
                \/ Strip(a1[k]) = Strip(a2[k])
                \/ /\ Float(Strip(a1[k])).ok
                   /\ Float(Strip(a2[k])).ok
                   /\ FloatEq(Float(Strip(a1[k])), Float(Strip(a2[k])))
         THEN "" ELSE "AssertionError"

\* lines 321-327
ChildCountCheck(h, e1, e2, skip_comments) ==
    LET nc1 == IF skip_comments THEN Len(ElementChildren(h, e1)) ELSE Len(h[e1].kids)
        nc2 == IF skip_comments THEN Len(ElementChildren(h, e2)) ELSE Len(h[e2].kids)
    IN  IF nc1 = nc2 THEN "" ELSE "AssertionError"

\* lines 330-342.  The regular expression's sub is called as sub(text, ''):
\* the text is the replacement and the empty string is the subject.
TextCheck(t1, t2, strict) ==
    IF t1 = t2 THEN ""
    ELSE IF strict THEN "AssertionError"
    ELSE IF IsNone(t1) THEN (IF Strip(Val(t2)) = << >> THEN "" ELSE "AssertionError")
    ELSE IF IsNone(t2) THEN (IF Strip(Val(t1)) = << >> THEN "" ELSE "AssertionError")
    ELSE IF RegexSpacesSub(Strip(Val(t1)), << >>) # RegexSpacesSub(Strip(Val(t2)), << >>)
         THEN IF /\ Float(Strip(Val(t1))).ok
                 /\ Float(Strip(Val(t2))).ok
                 /\ FloatEq(Float(Strip(Val(t1))), Float(Strip(Val(t2))))
              THEN "" ELSE "AssertionError"
    ELSE ""

\* lines 345-354.  The third branch tests e2.text, not e2.tail; None.strip()
\* is an AttributeError.
TailCheck(h, e1, e2, strict) ==
    LET t1 == h[e1].tail
        t2 == h[e2].tail
    IN  IF t1 = t2 THEN ""
        ELSE IF strict THEN "AssertionError"
        ELSE IF IsNone(t1) THEN (IF Strip(Val(t2)) = << >> THEN "" ELSE "AssertionError")
        ELSE IF IsNone(h[e2].text)
             THEN (IF Strip(Val(t1)) = << >> THEN "" ELSE "AssertionError")
        ELSE IF IsNone(t2) THEN "AttributeError"
        ELSE IF Strip(Val(t1)) = Strip(Val(t2)) THEN "" ELSE "AssertionError"

\* The checks of one pair (e1, e2) in the order of lines 295-354: the first
\* exception raised, and the namespace carried to the next pair.
PairCheck(h, elem, e1, e2, strict, skip_comments, namespace) ==
    LET tg == TagCheck(h, elem, e1, e2, strict, namespace)
        at == AttribCheck(h[e1].attrib, h[e2].attrib, strict)
        nc == ChildCountCheck(h, e1, e2, skip_comments)
        tx == TextCheck(h[e1].text, h[e2].text, strict)
        tl == TailCheck(h, e1, e2, strict)
    IN  [exc |-> IF tg.exc # "" THEN tg.exc
                 ELSE IF at # "" THEN at
                 ELSE IF nc # "" THEN nc
                 ELSE IF tx # "" THEN tx
                 ELSE tl,
         namespace |-> tg.namespace]

\* etree_elements_assert_equal(elem, other, strict, skip_comments, unordered):
\* "" when it returns, else the name of the exception it raises.  CompareLoop
\* is the for loop of line 286 at child i of `children`, with j - 1 items of
\* other_children consumed.
RECURSIVE etree_elements_assert_equal(_, _, _, _, _, _)
RECURSIVE CompareLoop(_, _, _, _, _, _, _, _, _, _, _)
CompareLoop(h, elem, other, strict, skip_comments, unordered, children, other_children, i, j, namespace) ==
    IF i > Len(children)
    THEN (IF j <= Len(other_children) THEN "AssertionError" ELSE "")
    ELSE LET e1 == children[i] IN
         IF skip_comments /\ Callable(h[e1].tag)
         THEN CompareLoop(h, elem, other, strict, skip_comments, unordered,
                          children, other_children, i + 1, j, namespace)
         ELSE IF j > Len(other_children) THEN "AssertionError"
         ELSE LET e2 == other_children[j]
                  pair == PairCheck(h, elem, e1, e2, strict, skip_comments, namespace)
                  sub == etree_elements_assert_equal(h, e1, e2, strict,
                                                     skip_comments, unordered)
              IN  IF pair.exc # "" THEN pair.exc
                  ELSE IF sub # "" THEN sub
                  ELSE CompareLoop(h, elem, other, strict, skip_comments, unordered,
                                   children, other_children, i + 1, j + 1,
                                   pair.namespace)
etree_elements_assert_equal(h, elem, other, strict, skip_comments, unordered) ==
    CompareLoop(h, elem, other, strict, skip_comments, unordered,
                Children(h, elem, unordered), Children(h, other, unordered),
                1, 1, << >>)

----------------------------------------------------------------------------
(* Trees the calls are made on                                             *)

RECURSIVE Ascending(_)
Ascending(S) ==
    IF S = {} THEN << >>
    ELSE LET m == CHOOSE x \in S : \A y \in S : x <= y
         IN  <<m>> \o Ascending(S \ {m})

\* The ordered trees of n nodes: node 1 is the root, parent[i] < i is the parent
\* of node i, and siblings are in ascending order.
ParentVectors(n) == {p \in [2..n -> 1..n] : \A i \in 2..n : p[i] < i}

KidsOf(p, n, k) == Ascending({i \in 2..n : p[i] = k})

\* Comments are leaves below the root.
WellFormed(p, n, lab) ==
    /\ ~Callable(lab[1].tag)
    /\ \A i \in 2..n : ~Callable(lab[p[i]].tag)

\* The heap holding the tree (p, lab) at identities off+1 .. off+n.
TreeHeap(p, n, lab, off) ==
    [id \in (off + 1)..(off + n) |->
        LET ks == KidsOf(p, n, id - off)
        IN  Node(lab[id - off].tag, lab[id - off].attrib, lab[id - off].text,
                 lab[id - off].tail, [j \in 1..Len(ks) |-> ks[j] + off])]

Reorderings(s) ==
    {t \in [1..Len(s) -> {s[i] : i \in 1..Len(s)}] :
        \A i \in 1..Len(s) : \E j \in 1..Len(s) : t[j] = s[i]}

Str_foo == <<"f", "o", "o">>
Str_bar == <<"b", "a", "r">>
Str_3_50 == <<" ", "3", ".", "5", "0", " ">>
Str_3_5 == <<"3", ".", "5">>
Str_1 == <<"1">>
Str_1_0 == <<"1", ".", "0">>
TagA == <<"a">>
TagB == <<"b">>
TagUA == <<"{", "u", "}", "a">>
NoAttrib == [k \in {} |-> << >>]
Attrib(k, v) == [x \in {k} |-> v]

----------------------------------------------------------------------------
(* Calls of etree_elements_assert_equal                                    *)

CmpMaxNodes == 3

\* What the nodes of the first tree carry.
CmpLabels ==
    { [tag |-> TagA, attrib |-> NoAttrib, text |-> None, tail |-> None],
      [tag |-> TagA, attrib |-> Attrib("k", Str_1), text |-> Some(Str_foo),
       tail |-> Some(<<"x">>)],
      [tag |-> TagB, attrib |-> NoAttrib, text |-> Some(Str_3_5), tail |-> Some(<<" ">>)],
      [tag |-> Comment, attrib |-> NoAttrib, text |-> Some(<<"x">>), tail |-> None] }

\* What one node of the second tree may carry instead.
CmpTags == {TagA, TagB, TagUA, Comment}
CmpAttribs == {NoAttrib, Attrib("k", Str_1), Attrib("k", Str_1_0),
               Attrib("k", Str_foo), Attrib("j", Str_1)}
CmpTexts == {None, Some(<< >>), Some(<<" ">>), Some(Str_foo), Some(Str_bar),
             Some(Str_3_50), Some(Str_3_5), Some(<<"f", "o", " ", "o">>)}
CmpTails == {None, Some(<<" ">>), Some(<<"x">>), Some(<<"x", " ">>), Some(<<"y">>)}

\* The second tree: a copy of the first with one node changed in one field,
\* one node's children permuted, or one node's last child left out.
CopyVariants(h, n) ==
    {h}
    \cup {[h EXCEPT ![m].tag = v] : m \in DOMAIN h, v \in CmpTags}
    \cup {[h EXCEPT ![m].attrib = v] : m \in DOMAIN h, v \in CmpAttribs}
    \cup {[h EXCEPT ![m].text = v] : m \in DOMAIN h, v \in CmpTexts}
    \cup {[h EXCEPT ![m].tail = v] : m \in DOMAIN h, v \in CmpTails}
    \cup UNION {{[h EXCEPT ![m].kids = v] : v \in Reorderings(h[m].kids)} :
                   m \in DOMAIN h}
    \cup {[h EXCEPT ![m].kids = SubSeq(h[m].kids, 1, Len(h[m].kids) - 1)] :
             m \in {x \in DOMAIN h : h[x].kids # << >>}}

CmpCall(elem, other, strict, skip_comments, unordered) ==
    [fn |-> "etree_elements_assert_equal", elem |-> elem, other |-> other,
     strict |-> strict, skip_comments |-> skip_comments, unordered |-> unordered]

InitCmp ==
    \E n \in 1..CmpMaxNodes :
      \E p \in ParentVectors(n), lab \in [1..n -> CmpLabels] :
        /\ WellFormed(p, n, lab)
        /\ \E h2 \in CopyVariants(TreeHeap(p, n, lab, n), n) :
             heap = TreeHeap(p, n, lab, 0) @@ h2
        /\ \E same, swap, strict, skip_comments, unordered \in BOOLEAN :
             call = CmpCall(IF same \/ ~swap THEN 1 ELSE n + 1,
                            IF same \/ swap THEN 1 ELSE n + 1,
                            strict, skip_comments, unordered)
        /\ pc = "call"
        /\ ret = [exc |-> "", val |-> None]

AssertEqual ==
    /\ pc = "call"
    /\ call.fn = "etree_elements_assert_equal"
    /\ ret' = [exc |-> etree_elements_assert_equal(heap, call.elem, call.other,
                           call.strict, call.skip_comments, call.unordered),
               val |-> None]
    /\ pc' = "done"
    /\ UNCHANGED <<heap, call>>

NextCmp == AssertEqual

SpecCmp == InitCmp /\ [][NextCmp]_vars

----------------------------------------------------------------------------
(* Claims about etree_elements_assert_equal                                *)

\* The two trees of a call on distinct trees occupy the two halves of the heap.
Half == Cardinality(DOMAIN heap) \div 2
TwoTrees == pc = "done" /\ call.fn = "etree_elements_assert_equal"
            /\ call.elem # call.other
Twin(id) == IF id <= Half THEN id + Half ELSE id - Half
Shift(kids, d) == [j \in 1..Len(kids) |-> kids[j] + d]
SameShape == \A i \in 1..Half : heap[i + Half].kids = Shift(heap[i].kids, Half)
HasComment(h) == \E i \in DOMAIN h : Callable(h[i].tag)

\* Node m and its twin agree on every field but (possibly) `field`, and every
\* other node agrees with its twin on every field.
SameFieldsBut(m, field) ==
    \A i \in 1..Half :
      /\ (i # m \/ field # "tag") => heap[i].tag = heap[i + Half].tag
      /\ (i # m \/ field # "attrib") => heap[i].attrib = heap[i + Half].attrib
      /\ (i # m \/ field # "text") => heap[i].text = heap[i + Half].text
      /\ (i # m \/ field # "tail") => heap[i].tail = heap[i + Half].tail

\* Tree identity as C1 states it: tag, attributes, text and number of children
\* at every corresponding pair, the top-level pair included, and the tail at
\* every corresponding pair below the top.
RECURSIVE Identical(_, _, _, _)
Identical(h, a, b, top) ==
    /\ h[a].tag = h[b].tag
    /\ h[a].attrib = h[b].attrib
    /\ h[a].text = h[b].text
    /\ top \/ h[a].tail = h[b].tail
    /\ Len(h[a].kids) = Len(h[b].kids)
    /\ \A i \in 1..Len(h[a].kids) : Identical(h, h[a].kids[i], h[b].kids[i], FALSE)

\* C1: with strict=True, skip_comments=False and unordered=False the call
\* succeeds iff the two trees are identical, the top-level pair included, and
\* any difference raises an AssertionError.
C1_StrictIffIdentical ==
    (TwoTrees /\ call.strict /\ ~call.skip_comments /\ ~call.unordered)
    => /\ ret.exc \in {"", "AssertionError"}
       /\ ret.exc = "" <=> Identical(heap, call.elem, call.other, TRUE)

\* The text criterion C2 states: trimmed and whitespace-collapsed texts are
\* equal, or both trimmed texts are the same number.
CollapsedText(s) == RegexSpacesSub(<<" ">>, Strip(s))
C2_TextPasses(t1, t2) ==
    \/ CollapsedText(t1) = CollapsedText(t2)
    \/ /\ Float(Strip(t1)).ok /\ Float(Strip(t2)).ok
       /\ FloatEq(Float(Strip(t1)), Float(Strip(t2)))

\* C2: in non-strict mode, when the trees differ only in the text of one
\* compared pair (below the top, both texts not None), the call succeeds iff
\* the texts meet the criterion, and fails with an AssertionError otherwise.
C2_NonStrictText ==
    \A m \in 2..Half :
      ( /\ TwoTrees /\ ~call.strict /\ ~call.skip_comments /\ ~call.unordered
        /\ SameShape /\ SameFieldsBut(m, "text")
        /\ heap[m].text # heap[Twin(m)].text
        /\ ~IsNone(heap[m].text) /\ ~IsNone(heap[Twin(m)].text) )
      => ret.exc = IF C2_TextPasses(Val(heap[m].text), Val(heap[Twin(m)].text))
                   THEN "" ELSE "AssertionError"

\* C3: comparing a tree with itself succeeds under every combination of
\* strict, skip_comments and unordered.
C3_Reflexive ==
    (pc = "done" /\ call.fn = "etree_elements_assert_equal" /\ call.elem = call.other)
    => ret.exc = ""

\* C4: with unordered=True (strict and skip_comments at their defaults), a
\* tree compares equal to a copy in which the children of one node are
\* permuted, same-tagged siblings of different content included.
C4_UnorderedPermutation ==
    \A m \in 1..Half :
      ( /\ TwoTrees /\ call.unordered /\ call.strict /\ call.skip_comments
        /\ ~HasComment(heap)
        /\ SameFieldsBut(m, "none")
        /\ \A i \in (1..Half) \ {m} : heap[i + Half].kids = Shift(heap[i].kids, Half)
        /\ heap[m + Half].kids \in Reorderings(Shift(heap[m].kids, Half)) )
      => ret.exc = ""

\* The tail criterion C10 states: one tail None and the other whitespace-only,
\* or both not None and equal after trimming.
C10_TailPasses(t1, t2) ==
    \/ IsNone(t1) /\ ~IsNone(t2) /\ Strip(Val(t2)) = << >>
    \/ IsNone(t2) /\ ~IsNone(t1) /\ Strip(Val(t1)) = << >>
    \/ ~IsNone(t1) /\ ~IsNone(t2) /\ Strip(Val(t1)) = Strip(Val(t2))

\* C10: in non-strict mode, when the trees differ only in the tail of one
\* compared pair, the call succeeds iff the tails meet the criterion and
\* raises an AssertionError otherwise, whatever the texts are.
C10_NonStrictTail ==
    \A m \in 2..Half :
      ( /\ TwoTrees /\ ~call.strict /\ ~call.skip_comments /\ ~call.unordered
        /\ SameShape /\ SameFieldsBut(m, "tail")
        /\ heap[m].tail # heap[Twin(m)].tail )
      => ret.exc = IF C10_TailPasses(heap[IF call.elem = 1 THEN m ELSE Twin(m)].tail,
                                     heap[IF call.elem = 1 THEN Twin(m) ELSE m].tail)
                   THEN "" ELSE "AssertionError"

----------------------------------------------------------------------------
(* prune_etree                                                             *)

\* list.remove(x): the first occurrence of x leaves the list.
RECURSIVE ListRemove(_, _)
ListRemove(s, x) ==
    IF s = << >> THEN << >>
    ELSE IF Head(s) = x THEN Tail(s)
    ELSE <<Head(s)>> \o ListRemove(Tail(s), x)

\* A removal loop that walks the live list instead of the copy elem[:]: after
\* a removal the list has shifted and the next child is stepped over.
RECURSIVE RemoveWalkingLive(_, _, _)
RemoveWalkingLive(kids, i, selected) ==
    IF i > Len(kids) THEN kids
    ELSE IF kids[i] \in selected
         THEN RemoveWalkingLive(ListRemove(kids, kids[i]), i + 1, selected)
         ELSE RemoveWalkingLive(kids, i + 1, selected)
RemoveSelectedNoCopy(kids, selected) == RemoveWalkingLive(kids, 1, selected)

\* lines 377-379: for child in elem[:]: if selector(child): elem.remove(child).
\* `copy` is what is left of the copy elem[:], `kids` the live list.
RECURSIVE RemoveLoop(_, _, _)
RemoveLoop(copy, kids, selected) ==
    IF copy = << >> THEN kids
    ELSE RemoveLoop(Tail(copy),
                    IF Head(copy) \in selected THEN ListRemove(kids, Head(copy))
                    ELSE kids,
                    selected)
RemoveSelected(kids, selected) == RemoveLoop(kids, kids, selected)

\* lines 376-382: _prune_subtree(elem), as the heap it leaves.  PruneChildren is
\* the loop of line 381 from child i on.
RECURSIVE _prune_subtree(_, _, _)
RECURSIVE PruneChildren(_, _, _, _)
PruneChildren(h, elem, i, selected) ==
    IF i > Len(h[elem].kids) THEN h
    ELSE PruneChildren(_prune_subtree(h, h[elem].kids[i], selected), elem, i + 1, selected)
_prune_subtree(h, elem, selected) ==
    PruneChildren([h EXCEPT ![elem].kids = RemoveSelected(h[elem].kids, selected)],
                  elem, 1, selected)

\* lines 384-387: the heap left and the value returned (True or None).
prune_etree(h, root, selected) ==
    IF root \in selected
    THEN [heap |-> [h EXCEPT ![root].kids = << >>], val |-> Some(TRUE)]
    ELSE [heap |-> _prune_subtree(h, root, selected), val |-> None]

PruneMaxNodes == 5

PlainLabel == [tag |-> TagA, attrib |-> NoAttrib, text |-> None, tail |-> None]

\* The selector is any side-effect-free predicate on elements: the model takes
\* it as the set of elements it holds of.
InitPrune ==
    \E n \in 1..PruneMaxNodes :
      \E p \in ParentVectors(n), selected \in SUBSET (1..n) :
        /\ heap = TreeHeap(p, n, [i \in 1..n |-> PlainLabel], 0)
        /\ call = [fn |-> "prune_etree", root |-> 1, selected |-> selected]
        /\ pc = "call"
        /\ ret = [exc |-> "", val |-> None]

Prune ==
    /\ pc = "call"
    /\ call.fn = "prune_etree"
    /\ heap' = prune_etree(heap, call.root, call.selected).heap
    /\ ret' = [exc |-> "", val |-> prune_etree(heap, call.root, call.selected).val]
    /\ pc' = "done"
    /\ UNCHANGED call

NextPrune == Prune

SpecPrune == InitPrune /\ [][NextPrune]_vars

\* The elements below `root` in heap h.
RECURSIVE Below(_, _)
Below(h, root) ==
    UNION {{h[root].kids[i]} \cup Below(h, h[root].kids[i]) : i \in 1..Len(h[root].kids)}

\* The elements on the path from `root` down to n, both included (n is root
\* or below root).
RECURSIVE PathTo(_, _, _)
PathTo(h, root, n) ==
    IF n = root THEN {root}
    ELSE LET par == CHOOSE q \in DOMAIN h : Contains(h, q, n)
         IN  {n} \cup PathTo(h, root, par)

\* What C5 states of the heap h2 that prune_etree(root, selector) leaves of h.
C5_PruneKeeps(h, h2, root, selected) ==
    LET kept == {n \in Below(h, root) : PathTo(h, root, n) \cap selected = {}}
    IN  /\ Below(h2, root) = kept
        /\ \A q \in kept \cup {root} :
             h2[q].kids = SelectSeq(h[q].kids, LAMBDA c : c \in kept)
        /\ Below(h2, root) \cap selected = {}
        /\ root \in selected => h2[root].kids = << >>
        /\ \A q \in DOMAIN h :
             /\ h2[q].tag = h[q].tag /\ h2[q].attrib = h[q].attrib
             /\ h2[q].text = h[q].text /\ h2[q].tail = h[q].tail

\* C5: prune_etree leaves below root exactly the original descendants with no
\* selected element on their path from root (root included), each under its
\* original parent and in its original order among the siblings that remain;
\* so no selected element remains, a selected root ends with no children, and
\* nothing but the children lists changes.
C5_Prune ==
    [][(pc = "call" /\ call.fn = "prune_etree")
       => C5_PruneKeeps(heap, heap', call.root, call.selected)]_vars

\* A call that detached a selected element together with an unselected
\* descendant of it, kept an element two levels below root and left root
\* itself in place.
C5_Witness ==
    /\ pc = "done" /\ call.fn = "prune_etree"
    /\ call.root \notin call.selected
    /\ \E n \in DOMAIN heap \ (Below(heap, call.root) \cup {call.root}) :
         /\ n \in call.selected
         /\ \E c \in Below(heap, n) : c \notin call.selected
    /\ \E n \in Below(heap, call.root) : ~Contains(heap, call.root, n)

----------------------------------------------------------------------------
(* etree_iterpath and etree_getpath (namespaces=None)                      *)

\* Counter([e.tag for e in elem])[t]
TagCount(h, elem, t) == Cardinality({i \in 1..Len(h[elem].kids) : h[h[elem].kids[i]].tag = t})

\* A position counter that is never advanced (line 215 left out).
NextPositionStuck(positions, t) == positions

\* Counters for every child tag, as XPath numbers every step.
InitialPositionsForAll(h, elem, add_position) ==
    IF add_position
    THEN [t \in {h[h[elem].kids[i]].tag : i \in 1..Len(h[elem].kids)} |-> 1]
    ELSE [t \in {} |-> 1]

\* lines 195-199: the counters, at 1, of the tags that occur more than once
\* among the children; the empty tuple without add_position.
InitialPositions(h, elem, add_position) ==
    IF add_position
    THEN [t \in {h[h[elem].kids[i]].tag : i \in {j \in 1..Len(h[elem].kids) :
                     TagCount(h, elem, h[h[elem].kids[j]].tag) > 1}} |-> 1]
    ELSE [t \in {} |-> 1]

\* line 215: positions[child.tag] += 1
NextPosition(positions, t) == [positions EXCEPT ![t] = @ + 1]

\* lines 206-211
ChildPath(path, child_name) ==
    IF path = <<"/">> THEN <<"/">> \o child_name
    ELSE IF path # << >> THEN path \o <<"/">> \o child_name
    ELSE child_name

\* etree_iterpath(elem, tag, path, None, add_position): the (element, path)
\* pairs in the order they are yielded.  `tag` is None or Some(string).
\* IterChildren is the loop of line 201 from child i on.
RECURSIVE etree_iterpath(_, _, _, _, _)
RECURSIVE IterChildren(_, _, _, _, _, _, _)
IterChildren(h, elem, tag, path, add_position, i, positions) ==
    IF i > Len(h[elem].kids) THEN << >>
    ELSE LET child == h[elem].kids[i] IN
         IF Callable(h[child].tag)
         THEN IterChildren(h, elem, tag, path, add_position, i + 1, positions)
         ELSE LET base == ChildPath(path, h[child].tag)
                  counted == h[child].tag \in DOMAIN positions
                  child_path == IF counted
                                THEN base \o <<"[">> \o FormatInt(positions[h[child].tag])
                                          \o <<"]">>
                                ELSE base
              IN  etree_iterpath(h, child, tag, child_path, add_position)
                  \o IterChildren(h, elem, tag, path, add_position, i + 1,
                                  IF counted THEN NextPosition(positions, h[child].tag)
                                  ELSE positions)
etree_iterpath(h, elem, tag, path, add_position) ==
    LET filter == IF tag = Some(<<"*">>) THEN None ELSE tag
    IN  (IF IsNone(filter) \/ h[elem].tag = Val(filter) THEN << <<elem, path>> >> ELSE << >>)
        \o IterChildren(h, elem, filter, path, add_position, 1,
                        InitialPositions(h, elem, add_position))

\* The path of the first of the pairs at the indices `hits`, None if there is
\* none: the return inside the for loops of lines 241-249.
FirstPath(pairs, hits) ==
    IF hits = {} THEN None
    ELSE Some(pairs[CHOOSE i \in hits : \A j \in hits : i <= j][2])

\* lines 233-249
etree_getpath(h, elem, root, relative, add_position, parent_path) ==
    LET path == IF relative THEN <<".">> ELSE <<"/">> \o h[root].tag
        pairs == etree_iterpath(h, root, Some(h[elem].tag), path, add_position)
    IN  IF ~parent_path
        THEN FirstPath(pairs, {i \in 1..Len(pairs) : pairs[i][1] = elem})
        ELSE IF Contains(h, root, elem) THEN Some(path)
        ELSE FirstPath(pairs, {i \in 1..Len(pairs) : Contains(h, pairs[i][1], elem)})

PathMaxNodes == 4
PathMaxSiblings == 4

PathLabels ==
    { [tag |-> t, attrib |-> NoAttrib, text |-> None, tail |-> None] :
        t \in {TagA, TagB, Comment} }

\* Every tree of up to PathMaxNodes nodes, and the flat trees of up to
\* PathMaxSiblings children.
PathHeaps ==
    UNION { UNION { { TreeHeap(p, n, lab, 0) :
                        lab \in {l \in [1..n -> PathLabels] : WellFormed(p, n, l)} } :
                    p \in ParentVectors(n) } :
            n \in 1..PathMaxNodes }
    \cup UNION { { TreeHeap([i \in 2..(k + 1) |-> 1], k + 1, lab, 0) :
                     lab \in {l \in [1..(k + 1) -> PathLabels] : ~Callable(l[1].tag)} } :
                 k \in 1..PathMaxSiblings }

InitPath ==
    /\ heap \in PathHeaps
    /\ \/ \E root \in {r \in DOMAIN heap : r <= 2 /\ ~Callable(heap[r].tag)},
             elem \in DOMAIN heap, relative, add_position, parent_path \in BOOLEAN :
            call = [fn |-> "etree_getpath", elem |-> elem, root |-> root,
                    relative |-> relative, add_position |-> add_position,
                    parent_path |-> parent_path]
       \/ \E tag \in {None, Some(<<"*">>), Some(TagA)},
             path \in {<<".">>, <<"/">>, << >>}, add_position \in BOOLEAN :
            call = [fn |-> "etree_iterpath", elem |-> 1, tag |-> tag, path |-> path,
                    add_position |-> add_position]
    /\ pc = "call"
    /\ ret = [exc |-> "", val |-> None]

GetPath ==
    /\ pc = "call"
    /\ call.fn = "etree_getpath"
    /\ ret' = [exc |-> "",
               val |-> etree_getpath(heap, call.elem, call.root, call.relative,
                                     call.add_position, call.parent_path)]
    /\ pc' = "done"
    /\ UNCHANGED <<heap, call>>

IterPath ==
    /\ pc = "call"
    /\ call.fn = "etree_iterpath"
    /\ ret' = [exc |-> "",
               val |-> etree_iterpath(heap, call.elem, call.tag, call.path,
                                      call.add_position)]
    /\ pc' = "done"
    /\ UNCHANGED <<heap, call>>

NextPath == GetPath \/ IterPath

SpecPath == InitPath /\ [][NextPath]_vars

----------------------------------------------------------------------------
(* Claims about etree_iterpath and etree_getpath                           *)

ParentOf(h, n) == CHOOSE q \in DOMAIN h : Contains(h, q, n)
BasePath(h, root, relative) == IF relative THEN <<".">> ELSE <<"/">> \o h[root].tag
PathGivenTo(pairs, n) == pairs[CHOOSE i \in 1..Len(pairs) : pairs[i][1] = n][2]

\* C6: with add_position=True, etree_getpath gives every element n at or below
\* root a path, and among the pairs etree_iterpath(root, tag=n.tag,
\* add_position=True) yields from the same base path exactly one has that
\* path, and its element is n.
C6_PathRoundTrip ==
    ( /\ pc = "done" /\ call.fn = "etree_getpath"
      /\ call.add_position /\ ~call.parent_path
      /\ ~Callable(heap[call.elem].tag)
      /\ call.elem \in Below(heap, call.root) \cup {call.root} )
    => /\ ~IsNone(ret.val)
       /\ LET pairs == etree_iterpath(heap, call.root, Some(heap[call.elem].tag),
                                      BasePath(heap, call.root, call.relative), TRUE)
              hits == {i \in 1..Len(pairs) : pairs[i][2] = Val(ret.val)}
          IN  /\ Cardinality(hits) = 1
              /\ \A i \in hits : pairs[i][1] = call.elem

\* The path found is that of the second of two same-tagged siblings, two
\* levels below root.
C6_Witness ==
    /\ pc = "done" /\ call.fn = "etree_getpath"
    /\ call.add_position /\ ~call.parent_path /\ call.relative
    /\ ret.val = Some(<<".", "/", "b", "/", "a", "[", "2", "]">>)

\* C7: with parent_path=True etree_getpath returns, for every proper descendant
\* of root, the path etree_iterpath gives its parent from the same base path,
\* and it returns None only for an elem that is not below root.
C7_ParentPath ==
    ( /\ pc = "done" /\ call.fn = "etree_getpath" /\ call.parent_path
      /\ call.elem \in Below(heap, call.root) )
    => ret.val = Some(PathGivenTo(
                     etree_iterpath(heap, call.root, None,
                                    BasePath(heap, call.root, call.relative),
                                    call.add_position),
                     ParentOf(heap, call.elem)))

\* The [n] suffix C8 states for child c of q: none unless add_position is set
\* and c's tag occurs more than once among q's children, else the 1-based rank
\* of c among its same-tagged siblings.
C8_Suffix(h, q, c, add_position) ==
    LET sibs == h[q].kids
        same == {j \in 1..Len(sibs) : h[sibs[j]].tag = h[c].tag}
        rank == Cardinality({j \in same : \E k \in 1..Len(sibs) : sibs[k] = c /\ j <= k})
    IN  IF add_position /\ Cardinality(same) > 1
        THEN <<"[">> \o FormatInt(rank) \o <<"]">>
        ELSE << >>

\* C8: every path etree_iterpath yields for a child is its parent's path,
\* the child's tag and the stated suffix; without add_position no path holds
\* a suffix.
C8_PositionQualifiers ==
    (pc = "done" /\ call.fn = "etree_iterpath" /\ call.tag \in {None, Some(<<"*">>)})
    => \A i \in 1..Len(ret.val) :
         LET c == ret.val[i][1]
             path == ret.val[i][2]
         IN  /\ c # call.elem =>
                  path = ChildPath(PathGivenTo(ret.val, ParentOf(heap, c)), heap[c].tag)
                         \o C8_Suffix(heap, ParentOf(heap, c), c, call.add_position)
             /\ ~call.add_position => \A k \in 1..Len(path) : path[k] # "["

\* The children tagged [a, b, a, a] yield a[1], b, a[2], a[3], in that order.
C8_Witness ==
    /\ pc = "done" /\ call.fn = "etree_iterpath" /\ call.add_position
    /\ ret.val = << <<1, <<".">> >>,
                    <<2, <<".", "/", "a", "[", "1", "]">> >>,
                    <<3, <<".", "/", "b">> >>,
                    <<4, <<".", "/", "a", "[", "2", "]">> >>,
                    <<5, <<".", "/", "a", "[", "3", "]">> >> >>

----------------------------------------------------------------------------
(* etree_tostring, from the text the ElementTree module returns (line 155) *)

\* str.replace('\t', ' ' * n)
RECURSIVE ReplaceTabs(_, _)
ReplaceTabs(s, n) ==
    IF s = << >> THEN << >>
    ELSE (IF Head(s) = "\t" THEN Spaces(n) ELSE <<Head(s)>>) \o ReplaceTabs(Tail(s), n)

\* The text up to its first newline, and what follows that newline.
RECURSIVE UpToNewline(_)
UpToNewline(s) ==
    IF s = << >> \/ Head(s) = "\n" THEN << >> ELSE <<Head(s)>> \o UpToNewline(Tail(s))
AfterNewline(s) == SubSeq(s, Len(UpToNewline(s)) + 2, Len(s))

\* str.splitlines(): a final newline opens no further line.
RECURSIVE SplitLines(_)
SplitLines(s) ==
    IF s = << >> THEN << >> ELSE <<UpToNewline(s)>> \o SplitLines(AfterNewline(s))

\* '\n'.join(lines)
RECURSIVE JoinLines(_)
JoinLines(lines) ==
    IF lines = << >> THEN << >>
    ELSE IF Len(lines) = 1 THEN lines[1]
    ELSE lines[1] \o <<"\n">> \o JoinLines(Tail(lines))

XmlDeclaration ==
    <<"<", "?", "x", "m", "l", " ", "v", "e", "r", "s", "i", "o", "n", "=", "\"", "1",
      ".", "0", "\"", " ", "e", "n", "c", "o", "d", "i", "n", "g", "=", "\"", "U", "T",
      "F", "-", "8", "\"", "?", ">">>

\* lines 159-160: while lines and not lines[-1].strip(): lines.pop(-1)
RECURSIVE DropTrailingBlank(_)
DropTrailingBlank(lines) ==
    IF lines # << >> /\ Strip(lines[Len(lines)]) = << >>
    THEN DropTrailingBlank(SubSeq(lines, 1, Len(lines) - 1))
    ELSE lines

\* {k for k in range(len(line)) if line[k] != ' '}, 0-based
NonSpaceColumns(line) == {k \in 0..(Len(line) - 1) : line[k + 1] # " "}
Minimum(S) == CHOOSE x \in S : \A y \in S : x <= y

\* lines 162-169: [exc, last_indent, child_indent, min_indent]; min() of an
\* empty sequence is a ValueError, lines[-1] of an empty list an IndexError.
Indents(lines) ==
    LET none == [exc |-> "", last_indent |-> << >>, child_indent |-> << >>,
                 min_indent |-> << >>]
    IN  IF lines = << >> THEN [none EXCEPT !.exc = "IndexError"]
        ELSE IF NonSpaceColumns(lines[Len(lines)]) = {}
             THEN [none EXCEPT !.exc = "ValueError"]
        ELSE LET last_indent == Spaces(Minimum(NonSpaceColumns(lines[Len(lines)])))
                 middle == UNION {NonSpaceColumns(lines[i]) : i \in 2..(Len(lines) - 1)}
             IN  IF Len(lines) > 2
                 THEN IF middle = {} THEN [none EXCEPT !.exc = "ValueError"]
                      ELSE LET child_indent == Spaces(Minimum(middle))
                           IN  [exc |-> "", last_indent |-> last_indent,
                                child_indent |-> child_indent,
                                min_indent |-> IF StrLess(last_indent, child_indent)
                                               THEN last_indent ELSE child_indent]
                 ELSE [exc |-> "", last_indent |-> last_indent,
                       child_indent |-> last_indent, min_indent |-> last_indent]

\* lines 122-128
reindent(line, min_indent, start, indent) ==
    IF line = << >> THEN line
    ELSE IF StartsWith(line, min_indent)
         THEN (IF start >= 0 THEN SliceFrom(line, start)
               ELSE SliceFrom(indent, start) \o line)
    ELSE indent \o line

\* A truncation that keeps no closing line.
TruncateNoLastLine(lines, max_lines, child_indent) ==
    IF ~IsNone(max_lines) /\ Len(lines) > Val(max_lines) + 2
    THEN SubSeq(lines, 1, Val(max_lines))
         \o <<child_indent \o <<".", ".", ".">>, child_indent \o <<".", ".", ".">> >>
    ELSE lines

\* lines 173-174 (max_lines >= 0)
Truncate(lines, max_lines, child_indent) ==
    IF ~IsNone(max_lines) /\ Len(lines) > Val(max_lines) + 2
    THEN SubSeq(lines, 1, Val(max_lines))
         \o <<child_indent \o <<".", ".", ".">>, child_indent \o <<".", ".", ".">> >>
         \o <<lines[Len(lines)]>>
    ELSE lines

\* lines 157-160
LineList(xml_text, spaces_for_tab, xml_declaration) ==
    DropTrailingBlank((IF xml_declaration THEN <<XmlDeclaration>> ELSE << >>)
                      \o SplitLines(ReplaceTabs(xml_text, spaces_for_tab)))

\* lines 157-176: [exc, val]
etree_tostring(xml_text, indent, max_lines, spaces_for_tab, xml_declaration) ==
    LET lines == LineList(xml_text, spaces_for_tab, xml_declaration)
        ind == Indents(lines)
        start == Len(ind.min_indent) - Len(indent)
        kept == Truncate(lines, max_lines, ind.child_indent)
    IN  IF ind.exc # "" THEN [exc |-> ind.exc, val |-> << >>]
        ELSE [exc |-> "",
              val |-> JoinLines([i \in 1..Len(kept) |->
                                    reindent(kept[i], ind.min_indent, start, indent)])]

SerMaxLines == 4
SpacesForTab == 4

\* Lines the ElementTree module may hand back: tags at several depths, an
\* empty line, a tab-indented line.
SerLines == { <<"<", "a", ">">>, <<" ", "<", "a", ">">>, <<" ", " ", "<", "a", ">">>,
              << >>, <<"\t", "<", "a", ">">> }

InitSer ==
    \E n \in 1..SerMaxLines :
      \E lines \in [1..n -> SerLines], indent \in {<< >>, <<" ">>, <<" ", " ", " ">>},
         max_lines \in {None, Some(0), Some(1), Some(2)}, xml_declaration \in BOOLEAN :
        /\ call = [fn |-> "etree_tostring", xml_text |-> JoinLines(lines),
                   indent |-> indent, max_lines |-> max_lines,
                   spaces_for_tab |-> SpacesForTab, xml_declaration |-> xml_declaration]
        /\ heap = << >>
        /\ pc = "call"
        /\ ret = [exc |-> "", val |-> None]

Serialize ==
    /\ pc = "call"
    /\ call.fn = "etree_tostring"
    /\ ret' = etree_tostring(call.xml_text, call.indent, call.max_lines,
                             call.spaces_for_tab, call.xml_declaration)
    /\ pc' = "done"
    /\ UNCHANGED <<heap, call>>

NextSer == Serialize

SpecSer == InitSer /\ [][NextSer]_vars

----------------------------------------------------------------------------
(* Claims about etree_tostring                                             *)

\* str.split('\n'): the lines of a joined text.
RECURSIVE SplitNewline(_)
SplitNewline(s) ==
    IF \E i \in 1..Len(s) : s[i] = "\n"
    THEN <<UpToNewline(s)>> \o SplitNewline(AfterNewline(s))
    ELSE <<s>>

SerReturned == pc = "done" /\ call.fn = "etree_tostring" /\ ret.exc = ""
                /\ ~IsNone(call.max_lines)
\* The lines returned, and the lines the same call returns without max_lines.
SerOutput == SplitNewline(ret.val)
SerUntruncated ==
    SplitNewline(etree_tostring(call.xml_text, call.indent, None,
                                call.spaces_for_tab, call.xml_declaration).val)
SerIndents == Indents(LineList(call.xml_text, call.spaces_for_tab, call.xml_declaration))
Dots == <<".", ".", ".">>

\* What C9 states of a returned text, for the marker line `marker`.
C9_Shape(marker) ==
    LET k == Val(call.max_lines)
        out == SerOutput
        full == SerUntruncated
    IN  IF Len(full) > k + 2
        THEN /\ Len(out) = k + 3
             /\ SubSeq(out, 1, k) = SubSeq(full, 1, k)
             /\ out[k + 1] = marker /\ out[k + 2] = marker
             /\ out[k + 3] = full[Len(full)]
        ELSE out = full

\* C9 as stated: the two marker lines read exactly child_indent + "...".
C9_MarkerIsChildIndent ==
    SerReturned => C9_Shape(SerIndents.child_indent \o Dots)

\* C9 as amended: the marker lines are child_indent + "..." moved to the base
\* indent like every other line: with start = len(min_indent) - len(indent),
\* start columns are cut from child_indent when start >= 0 and the last -start
\* characters of indent are put in front of it when start < 0.
C9_MarkerReindented ==
    SerReturned =>
      LET start == Len(SerIndents.min_indent) - Len(call.indent)
      IN  C9_Shape(IF start >= 0
                   THEN SubSeq(SerIndents.child_indent, start + 1,
                               Len(SerIndents.child_indent)) \o Dots
                   ELSE SubSeq(call.indent, Len(call.indent) + start + 1, Len(call.indent))
                        \o SerIndents.child_indent \o Dots)

\* A truncated text whose lines were moved to a base indent of three spaces
\* and whose children are indented.
C9_Witness ==
    /\ SerReturned
    /\ Len(SerUntruncated) > Val(call.max_lines) + 2
    /\ Val(call.max_lines) > 0
    /\ call.indent = <<" ", " ", " ">>
    /\ SerIndents.child_indent # << >>

====
